---- MODULE Spec2Model ----
(***************************************************************************)
(* Model of RefreshLakehouseMetadata.py: one run of the usage block, which *)
(* calls refresh_sql_endpoint_and_wait, which calls                        *)
(* get_sql_endpoint_for_lakehouse.  Strings are sequences of one-character *)
(* strings so that lower(), ==, "in" and f-string formatting are computed. *)
(* The alphabet is ASCII letters, digits, space and '-': display names     *)
(* without quote, backslash or control characters, for which repr() of a   *)
(* str is the str between single quotes.                                   *)
(***************************************************************************)
EXTENDS Integers, Sequences, FiniteSets, TLC

\* ---------------------------------------------------------------- bounds
MaxLakehouses == 2
MaxEndpoints == 2
MaxItems == 2
MaxWaitMinutes == 1
MaxLatencySteps == 1
LatencyStep == 20

\* ------------------------------------------------------ program constants
SleepSeconds == 30
SecondsPerMinute == 60
StatusOK == 200
StatusAccepted == 202

\* ------------------------------------------------------- string literals
N_foo ==
    <<"f", "o", "o">>

N_Foo ==
    <<"F", "o", "o">>

N_foobar ==
    <<"f", "o", "o", "b", "a", "r">>

N_barSql ==
    <<"b", "a", "r", " ", "S", "Q", "L">>

N_FooAnalytics ==
    <<"F", "O", "O", " ", "A", "n", "a", "l", "y", "t", "i", "c", "s">>

N_fooSqlEp ==
    <<"f", "o", "o", " ", "-", " ", "S", "Q", "L", " ", "a", "n", "a", "l", "y", "t", "i", "c", "s", " ", "e", "n", "d", "p", "o", "i", "n", "t">>

Tok_sql ==
    <<"s", "q", "l">>

Tok_analytics ==
    <<"a", "n", "a", "l", "y", "t", "i", "c", "s">>

B_err ==
    <<"e", "r", "r">>

B_gone ==
    <<"g", "o", "n", "e">>

S_FailedLakehouses ==
    <<"F", "a", "i", "l", "e", "d", " ", "t", "o", " ", "g", "e", "t", " ", "l", "a", "k", "e", "h", "o", "u", "s", "e", "s", ":", " ">>

S_Dash ==
    <<" ", "-", " ">>

S_Lakehouse ==
    <<"L", "a", "k", "e", "h", "o", "u", "s", "e", " ", "'">>

S_NotFoundAvailable ==
    <<"'", " ", "n", "o", "t", " ", "f", "o", "u", "n", "d", ".", " ", "A", "v", "a", "i", "l", "a", "b", "l", "e", ":", " ">>

S_FailedItems ==
    <<"F", "a", "i", "l", "e", "d", " ", "t", "o", " ", "g", "e", "t", " ", "w", "o", "r", "k", "s", "p", "a", "c", "e", " ", "i", "t", "e", "m", "s", ":", " ">>

S_NoSqlEndpoint ==
    <<"N", "o", " ", "S", "Q", "L", " ", "e", "n", "d", "p", "o", "i", "n", "t", " ", "f", "o", "u", "n", "d", " ", "f", "o", "r", " ", "l", "a", "k", "e", "h", "o", "u", "s", "e", " ", "'">>

S_AvailableSqlEndpoints ==
    <<"'", ".", " ", "A", "v", "a", "i", "l", "a", "b", "l", "e", " ", "S", "Q", "L", " ", "e", "n", "d", "p", "o", "i", "n", "t", "s", ":", " ">>

S_Available ==
    <<"'", ".", " ", "A", "v", "a", "i", "l", "a", "b", "l", "e", ":", " ">>

S_StatusCheckFailed ==
    <<"S", "t", "a", "t", "u", "s", " ", "c", "h", "e", "c", "k", " ", "f", "a", "i", "l", "e", "d", ":", " ">>

S_TimedOutAfter ==
    <<"R", "e", "f", "r", "e", "s", "h", " ", "t", "i", "m", "e", "d", " ", "o", "u", "t", " ", "a", "f", "t", "e", "r", " ">>

S_Minutes ==
    <<" ", "m", "i", "n", "u", "t", "e", "s">>

S_FailedToStart ==
    <<"R", "e", "f", "r", "e", "s", "h", " ", "f", "a", "i", "l", "e", "d", " ", "t", "o", " ", "s", "t", "a", "r", "t", ":", " ">>

S_ErrorPrefix ==
    <<"E", "r", "r", "o", "r", ":", " ">>

S_PipelineContinue ==
    <<"P", "i", "p", "e", "l", "i", "n", "e", " ", "c", "a", "n", " ", "c", "o", "n", "t", "i", "n", "u", "e", " ", "-", " ", "S", "Q", "L", " ", "e", "n", "d", "p", "o", "i", "n", "t", " ", "i", "s", " ", "r", "e", "f", "r", "e", "s", "h", "e", "d", "!">>

S_CommaSpace ==
    <<",", " ">>

UpperChars ==
    <<"A", "B", "C", "D", "E", "F", "G", "H", "I", "J", "K", "L", "M", "N", "O", "P", "Q", "R", "S", "T", "U", "V", "W", "X", "Y", "Z">>

LowerChars ==
    <<"a", "b", "c", "d", "e", "f", "g", "h", "i", "j", "k", "l", "m", "n", "o", "p", "q", "r", "s", "t", "u", "v", "w", "x", "y", "z">>

DigitChars ==
    <<"0", "1", "2", "3", "4", "5", "6", "7", "8", "9">>

EndpointType == "SQLEndpoint"
LakehouseType == "Lakehouse"
Unbound == "<unbound>"
None == "<None>"

\* ------------------------------------------------- input pools (bounded)
ResourceNames == {N_foo, N_Foo}
LakehouseNames == {N_foo, N_Foo}
EndpointNames == {N_fooSqlEp, N_foo, N_foobar, N_barSql, N_FooAnalytics}
\* name and type of an item: endpoints, and the storage resources themselves
ItemKinds ==
    (EndpointNames \X {EndpointType}) \cup (LakehouseNames \X {LakehouseType})
StatusCodes == {200, 202, 500}
RefreshStatusCodes == StatusCodes \cup {404}
BodyTexts == {B_err, B_gone}
LocationHeaders ==
    { [present |-> FALSE, value |-> ""],
      [present |-> TRUE, value |-> ""],
      [present |-> TRUE, value |-> "https://status/1"] }
LakehouseIds == <<"lh-1", "lh-2", "lh-3", "lh-4">>
EndpointIds == <<"ep-1", "ep-2", "ep-3", "ep-4">>
ItemIds == <<"it-1", "it-2", "it-3", "it-4">>

SeqsUpTo(S, n) == UNION { [1..k -> S] : k \in 0..n }

\* a listing of {id, displayName}: ids are positional and distinct
Listing(ids, names) ==
    [i \in 1..Len(names) |-> [id |-> ids[i], displayName |-> names[i]]]

\* a listing of {id, displayName, type}
ItemListing(ids, entries) ==
    [i \in 1..Len(entries) |->
        [id |-> ids[i], displayName |-> entries[i][1], type |-> entries[i][2]]]

LakehouseListings ==
    { Listing(LakehouseIds, ns) : ns \in SeqsUpTo(LakehouseNames, MaxLakehouses) }
EndpointListings ==
    { Listing(EndpointIds, ns) : ns \in SeqsUpTo(EndpointNames, MaxEndpoints) }
ItemListings ==
    { ItemListing(ItemIds, es) : es \in SeqsUpTo(ItemKinds, MaxItems) }

\* ------------------------------------------------------- str operations
\* str.lower() on one ASCII character
LowerChar(c) ==
    IF \E i \in 1..Len(UpperChars) : UpperChars[i] = c
    THEN LowerChars[CHOOSE i \in 1..Len(UpperChars) : UpperChars[i] = c]
    ELSE c

\* str.lower()
Lower(s) == [i \in 1..Len(s) |-> LowerChar(s[i])]

\* Python "sub in s" on str
Contains(sub, s) ==
    \E i \in 0..(Len(s) - Len(sub)) : SubSeq(s, i + 1, i + Len(sub)) = sub

RECURSIVE Digits(_)
\* str(n) for an int n >= 0
Digits(n) ==
    IF n < 10 THEN <<DigitChars[n + 1]>>
    ELSE Digits(n \div 10) \o <<DigitChars[(n % 10) + 1]>>

\* repr() of a str of the alphabet
Repr(s) == <<"'">> \o s \o <<"'">>

RECURSIVE JoinRepr(_)
JoinRepr(names) ==
    IF Len(names) = 0 THEN <<>>
    ELSE IF Len(names) = 1 THEN Repr(names[1])
    ELSE Repr(names[1]) \o S_CommaSpace \o JoinRepr(Tail(names))

\* str() of a list of str, as an f-string formats it
ListRepr(names) == <<"[">> \o JoinRepr(names) \o <<"]">>

\* [x['displayName'] for x in listing]
DisplayNames(listing) == [i \in 1..Len(listing) |-> listing[i].displayName]

\* index of the first element of 1..n satisfying P, 0 when there is none
FirstIndex(n, P(_)) ==
    IF \E i \in 1..n : P(i)
    THEN CHOOSE i \in 1..n : P(i) /\ \A j \in 1..(i - 1) : ~P(j)
    ELSE 0

\* ------------------------------------ get_sql_endpoint_for_lakehouse
\* variant: only a server error (5xx) leads to the items listing
AfterDirectListing_ServerErrorOnly(status) ==
    IF status >= 500 THEN "items" ELSE "direct"

\* variant: the items listing is requested whatever the direct listing answers
AfterDirectListing_AlwaysItems(status) == "items"

\* line 42: which path follows the response of the direct listing
AfterDirectListing(status) ==
    IF status # StatusOK THEN "items" ELSE "direct"

\* variant: the lakehouse is looked up ignoring letter case
FindLakehouse_IgnoreCase(lhs, name) ==
    FirstIndex(Len(lhs), LAMBDA i : Lower(lhs[i].displayName) = Lower(name))

\* lines 24-27: first lakehouse whose displayName == lakehouse_name
FindLakehouse(lhs, name) ==
    FirstIndex(Len(lhs), LAMBDA i : lhs[i].displayName = name)

\* variant: the items are not filtered by type
FilterSqlEndpoints_Unfiltered(its) == its

\* line 54: [item for item in items if item.get('type') == 'SQLEndpoint']
FilterSqlEndpoints(its) ==
    SelectSeq(its, LAMBDA item : item.type = EndpointType)

\* variant: the first loop of the items path does not ask for a marker token
MarkerMatch_SubstringOnly(name, endpoint) ==
    Contains(Lower(name), Lower(endpoint.displayName))

\* lines 64-66: condition of the first loop of the items path
MarkerMatch(name, endpoint) ==
    LET endpoint_name == Lower(endpoint.displayName)
    IN  /\ Contains(Lower(name), endpoint_name)
        /\ \/ Contains(Tok_sql, endpoint_name)
           \/ Contains(Tok_analytics, endpoint_name)

\* line 73: condition of the second loop of the items path
ExactMatch(name, endpoint) ==
    Lower(endpoint.displayName) = Lower(name)

\* variant: the two loops of the items path are swapped
FallbackMatch_ExactFirst(eps, name) ==
    LET first == FirstIndex(Len(eps), LAMBDA i : ExactMatch(name, eps[i]))
    IN  IF first # 0 THEN first
        ELSE FirstIndex(Len(eps), LAMBDA i : MarkerMatch(name, eps[i]))

\* variant: when neither loop finds a match, the first endpoint is taken
FallbackMatch_DefaultFirst(eps, name) ==
    LET first == FirstIndex(Len(eps), LAMBDA i : MarkerMatch(name, eps[i]))
        second == FirstIndex(Len(eps), LAMBDA i : ExactMatch(name, eps[i]))
    IN  IF first # 0 THEN first
        ELSE IF second # 0 THEN second
        ELSE IF Len(eps) > 0 THEN 1 ELSE 0

\* lines 62-75: index of target_sql_endpoint on the items path, 0 for None
FallbackMatch(eps, name) ==
    LET first == FirstIndex(Len(eps), LAMBDA i : MarkerMatch(name, eps[i]))
    IN  IF first # 0 THEN first
        ELSE FirstIndex(Len(eps), LAMBDA i : ExactMatch(name, eps[i]))

\* variant: the direct path requires a marker token as the items path does
RelaxedMatch_NeedsMarker(name, endpoint) ==
    \/ MarkerMatch(name, endpoint)
    \/ Lower(endpoint.displayName) = Lower(name)

\* lines 95-97: condition of the loop of the direct path
RelaxedMatch(name, endpoint) ==
    LET endpoint_name == Lower(endpoint.displayName)
    IN  \/ Contains(Lower(name), endpoint_name)
        \/ Lower(endpoint.displayName) = Lower(name)

\* variant: the loop of the direct path has no break: the last match is kept
DirectMatch_Last(eps, name) ==
    IF \E i \in 1..Len(eps) : RelaxedMatch(name, eps[i])
    THEN CHOOSE i \in 1..Len(eps) :
            /\ RelaxedMatch(name, eps[i])
            /\ \A j \in (i + 1)..Len(eps) : ~RelaxedMatch(name, eps[j])
    ELSE 0

\* lines 93-99: index of target_sql_endpoint on the direct path, 0 for None
DirectMatch(eps, name) ==
    FirstIndex(Len(eps), LAMBDA i : RelaxedMatch(name, eps[i]))

\* ------------------------------------------------- exception messages
MsgLakehousesFailed(status, text) ==
    S_FailedLakehouses \o Digits(status) \o S_Dash \o text

MsgNotFound(name, lhs) ==
    S_Lakehouse \o name \o S_NotFoundAvailable \o ListRepr(DisplayNames(lhs))

\* variant: the message of a failed items listing leaves the body out
MsgItemsFailed_NoBody(status, text) ==
    S_FailedItems \o Digits(status)

MsgItemsFailed(status, text) ==
    S_FailedItems \o Digits(status) \o S_Dash \o text

MsgNoEndpointItems(name, eps) ==
    S_NoSqlEndpoint \o name \o S_AvailableSqlEndpoints \o ListRepr(DisplayNames(eps))

MsgNoEndpointDirect(name, eps) ==
    S_NoSqlEndpoint \o name \o S_Available \o ListRepr(DisplayNames(eps))

MsgStatusCheckFailed(status, text) ==
    S_StatusCheckFailed \o Digits(status) \o S_Dash \o text

MsgTimedOut(minutes) ==
    S_TimedOutAfter \o Digits(minutes) \o S_Minutes

MsgTriggerFailed(status, text) ==
    S_FailedToStart \o Digits(status) \o S_Dash \o text

\* ------------------------------------- refresh_sql_endpoint_and_wait
\* line 135: response.headers.get('Location')
HeaderGet(location) == IF location.present THEN location.value ELSE None

\* variant: "status_url is None" instead of "not status_url"
NoStatusUrl_NoneOnly(url) == url = None

\* line 136: not status_url
NoStatusUrl(url) == url = None \/ url = ""

\* variant: 200 is handled by the branch of 202
TriggerBranch_200AsAccepted(status, location) ==
    IF status = StatusAccepted \/ status = StatusOK
    THEN IF NoStatusUrl(HeaderGet(location)) THEN "return" ELSE "poll"
    ELSE "raise"

\* variant: a trigger answer that is not 200 falls into the polling branch
TriggerBranch_PollUnless200(status, location) ==
    IF status = StatusOK THEN "return"
    ELSE IF NoStatusUrl(HeaderGet(location)) THEN "return" ELSE "poll"

\* lines 134-164: what the trigger response leads to
TriggerBranch(status, location) ==
    IF status = StatusAccepted
    THEN IF NoStatusUrl(HeaderGet(location)) THEN "return" ELSE "poll"
    ELSE IF status = StatusOK THEN "return" ELSE "raise"

\* variant: the loop sleeps after every answer that is not an error
PollBranch_SleepOn200(status) ==
    IF status = StatusOK \/ status = StatusAccepted THEN "sleep" ELSE "raise"

\* variant: an unexpected status is tolerated and polled again after a sleep
PollBranch_RetryOnError(status) ==
    IF status = StatusOK THEN "return" ELSE "sleep"

\* lines 149-156: what one status response leads to
PollBranch(status) ==
    IF status = StatusOK THEN "return"
    ELSE IF status = StatusAccepted THEN "sleep" ELSE "raise"

\* variant: the first poll is made before the deadline is looked at
LoopCondition_PollFirst(elapsed_seconds, minutes) ==
    elapsed_seconds = 0 \/ elapsed_seconds < minutes * SecondsPerMinute

\* variant: the loop condition is <= instead of <
LoopCondition_Inclusive(elapsed_seconds, minutes) ==
    elapsed_seconds <= minutes * SecondsPerMinute

\* line 146: while time.time() - start_time < max_wait_seconds
LoopCondition(elapsed_seconds, minutes) ==
    elapsed_seconds < minutes * SecondsPerMinute

\* --------------------------------------------------------------- state
VARIABLES
    pc,               \* position of the run
    lakehouse_name,   \* argument
    max_wait_minutes, \* argument
    lakehouses,       \* local of get_sql_endpoint_for_lakehouse
    lakehouse_id,     \* local of get_sql_endpoint_for_lakehouse
    items,            \* local of get_sql_endpoint_for_lakehouse
    sql_endpoints,    \* local of get_sql_endpoint_for_lakehouse
    sql_endpoint_id,  \* local of both functions
    status_url,       \* local of refresh_sql_endpoint_and_wait
    elapsed,          \* time.time() - start_time, in seconds
    trace,            \* requests issued and sleeps performed, in order
    error,            \* the exception raised: kind and message
    printed           \* what the usage block printed, in order

vars == <<pc, lakehouse_name, max_wait_minutes, lakehouses, lakehouse_id, items,
          sql_endpoints, sql_endpoint_id, status_url, elapsed, trace, error,
          printed>>

NoError == [kind |-> "none", msg |-> <<>>]

\* a request with its answer (status code, Location header, and the body where
\* the code reads it), or a sleep with its duration
Event(op, arg, n, location, text) ==
    [op |-> op, arg |-> arg, n |-> n, location |-> location, text |-> text]

Raise(kind, msg) ==
    /\ pc' = "raised"
    /\ error' = [kind |-> kind, msg |-> msg]

Init ==
    /\ pc = "list_lakehouses"
    /\ lakehouse_name \in ResourceNames
    /\ max_wait_minutes \in 0..MaxWaitMinutes
    /\ lakehouses = <<>>
    /\ lakehouse_id = Unbound
    /\ items = <<>>
    /\ sql_endpoints = <<>>
    /\ sql_endpoint_id = Unbound
    /\ status_url = Unbound
    /\ elapsed = 0
    /\ trace = <<>>
    /\ error = NoError
    /\ printed = <<>>

\* lines 17-34: GET .../lakehouses and the lookup of the lakehouse by name
ListLakehouses ==
    /\ pc = "list_lakehouses"
    /\ \E status \in StatusCodes :
        /\ IF status # StatusOK
           THEN \E text \in BodyTexts :
                /\ trace' = Append(trace, Event("GET lakehouses", "", status, None, text))
                /\ Raise("ListFailed", MsgLakehousesFailed(status, text))
                /\ UNCHANGED <<lakehouses, lakehouse_id>>
           ELSE \E value \in LakehouseListings :
                /\ trace' = Append(trace, Event("GET lakehouses", "", status, None, <<>>))
                /\ lakehouses' = value
                /\ LET target == FindLakehouse(value, lakehouse_name)
                   IN  IF target = 0
                       THEN /\ Raise("NotFound", MsgNotFound(lakehouse_name, value))
                            /\ UNCHANGED lakehouse_id
                       ELSE /\ lakehouse_id' = value[target].id
                            /\ pc' = "list_sqlendpoints"
                            /\ UNCHANGED error
    /\ UNCHANGED <<lakehouse_name, max_wait_minutes, items, sql_endpoints,
                   sql_endpoint_id, status_url, elapsed, printed>>

\* lines 41-44 and 84-106: GET .../sqlEndpoints and the direct path
ListSqlEndpoints ==
    /\ pc = "list_sqlendpoints"
    /\ \E status \in StatusCodes :
        /\ trace' = Append(trace, Event("GET sqlEndpoints", "", status, None, <<>>))
        /\ IF AfterDirectListing(status) = "items"
           THEN /\ pc' = "list_items"
                /\ UNCHANGED <<sql_endpoints, sql_endpoint_id, error>>
           ELSE \E value \in EndpointListings :
                /\ sql_endpoints' = value
                /\ LET target == DirectMatch(value, lakehouse_name)
                   IN  IF target = 0
                       THEN /\ Raise("NoMatchingEndpoint",
                                     MsgNoEndpointDirect(lakehouse_name, value))
                            /\ UNCHANGED sql_endpoint_id
                       ELSE /\ sql_endpoint_id' = value[target].id
                            /\ pc' = "return_id"
                            /\ UNCHANGED error
    /\ UNCHANGED <<lakehouse_name, max_wait_minutes, lakehouses, lakehouse_id,
                   items, status_url, elapsed, printed>>

\* lines 47-82: GET .../items and the items path
ListItems ==
    /\ pc = "list_items"
    /\ \E status \in StatusCodes :
        /\ IF status # StatusOK
           THEN \E text \in BodyTexts :
                /\ trace' = Append(trace, Event("GET items", "", status, None, text))
                /\ Raise("ListFailed", MsgItemsFailed(status, text))
                /\ UNCHANGED <<items, sql_endpoints, sql_endpoint_id>>
           ELSE \E value \in ItemListings :
                /\ trace' = Append(trace, Event("GET items", "", status, None, <<>>))
                /\ items' = value
                /\ sql_endpoints' = FilterSqlEndpoints(value)
                /\ LET target == FallbackMatch(sql_endpoints', lakehouse_name)
                   IN  IF target = 0
                       THEN /\ Raise("NoMatchingEndpoint",
                                     MsgNoEndpointItems(lakehouse_name, sql_endpoints'))
                            /\ UNCHANGED sql_endpoint_id
                       ELSE /\ sql_endpoint_id' = sql_endpoints'[target].id
                            /\ pc' = "return_id"
                            /\ UNCHANGED error
    /\ UNCHANGED <<lakehouse_name, max_wait_minutes, lakehouses, lakehouse_id,
                   status_url, elapsed, printed>>

\* variant: the id of the lakehouse is returned instead of the endpoint's
ReturnEndpointId_LakehouseId ==
    /\ pc = "return_id"
    /\ pc' = "trigger"
    /\ sql_endpoint_id' = lakehouse_id
    /\ lakehouses' = <<>>
    /\ lakehouse_id' = Unbound
    /\ items' = <<>>
    /\ sql_endpoints' = <<>>
    /\ UNCHANGED <<lakehouse_name, max_wait_minutes, status_url, elapsed, trace,
                   error, printed>>

\* lines 108 and 117: return sql_endpoint_id; the callee's frame is dropped
ReturnEndpointId ==
    /\ pc = "return_id"
    /\ pc' = "trigger"
    /\ lakehouses' = <<>>
    /\ lakehouse_id' = Unbound
    /\ items' = <<>>
    /\ sql_endpoints' = <<>>
    /\ UNCHANGED <<lakehouse_name, max_wait_minutes, sql_endpoint_id, status_url,
                   elapsed, trace, error, printed>>

\* lines 129-144 and 160-164: POST .../refreshMetadata and its classification
Trigger ==
    /\ pc = "trigger"
    /\ \E status \in RefreshStatusCodes, location \in LocationHeaders :
        /\ LET branch == TriggerBranch(status, location)
               answer(text) == Event("POST refreshMetadata", sql_endpoint_id, status,
                                     HeaderGet(location), text)
           IN  CASE branch = "return" ->
                      /\ trace' = Append(trace, answer(<<>>))
                      /\ pc' = "returned"
                      /\ UNCHANGED error
                 [] branch = "poll" ->
                      /\ trace' = Append(trace, answer(<<>>))
                      /\ pc' = "poll_loop"
                      /\ UNCHANGED error
                 [] OTHER ->
                      \E text \in BodyTexts :
                          /\ trace' = Append(trace, answer(text))
                          /\ Raise("TriggerFailed", MsgTriggerFailed(status, text))
        /\ status_url' = IF status = StatusAccepted THEN HeaderGet(location)
                         ELSE status_url
    /\ elapsed' = 0
    /\ UNCHANGED <<lakehouse_name, max_wait_minutes, lakehouses, lakehouse_id,
                   items, sql_endpoints, sql_endpoint_id, printed>>

\* lines 146-156: one iteration of the poll loop; the request may take time
Poll ==
    /\ pc = "poll_loop"
    /\ LoopCondition(elapsed, max_wait_minutes)
    /\ \E status \in RefreshStatusCodes, lat \in 0..MaxLatencySteps :
        LET branch == PollBranch(status)
            after == elapsed + lat * LatencyStep
        IN  CASE branch = "return" ->
                   /\ trace' = Append(trace, Event("GET status", status_url, status,
                                                   None, <<>>))
                   /\ pc' = "returned"
                   /\ elapsed' = after
                   /\ UNCHANGED error
              [] branch = "sleep" ->
                   /\ trace' = trace \o
                         <<Event("GET status", status_url, status, None, <<>>),
                           Event("sleep", "", SleepSeconds, None, <<>>)>>
                   /\ pc' = "poll_loop"
                   /\ elapsed' = after + SleepSeconds
                   /\ UNCHANGED error
              [] OTHER ->
                   /\ \E text \in BodyTexts :
                         /\ trace' = Append(trace, Event("GET status", status_url,
                                                         status, None, text))
                         /\ Raise("PollFailed", MsgStatusCheckFailed(status, text))
                   /\ elapsed' = after
    /\ UNCHANGED <<lakehouse_name, max_wait_minutes, lakehouses, lakehouse_id,
                   items, sql_endpoints, sql_endpoint_id, status_url, printed>>

\* lines 146 and 158: the loop condition is false
TimeOut ==
    /\ pc = "poll_loop"
    /\ ~LoopCondition(elapsed, max_wait_minutes)
    /\ Raise("RefreshTimedOut", MsgTimedOut(max_wait_minutes))
    /\ UNCHANGED <<lakehouse_name, max_wait_minutes, lakehouses, lakehouse_id,
                   items, sql_endpoints, sql_endpoint_id, status_url, elapsed,
                   trace, printed>>

\* the frames of both functions are dropped when control is back in the
\* usage block
FramesDropped ==
    /\ lakehouses' = <<>>
    /\ lakehouse_id' = Unbound
    /\ items' = <<>>
    /\ sql_endpoints' = <<>>
    /\ sql_endpoint_id' = Unbound
    /\ status_url' = Unbound

\* line 176: the call returned
UsageContinue ==
    /\ pc = "returned"
    /\ pc' = "done"
    /\ printed' = Append(printed, S_PipelineContinue)
    /\ FramesDropped
    /\ UNCHANGED <<lakehouse_name, max_wait_minutes, elapsed, trace, error>>

\* variant: the handler prints the error and does not raise again
UsageExcept_Swallowed ==
    /\ pc = "raised"
    /\ pc' = "done"
    /\ printed' = Append(printed, S_ErrorPrefix \o error.msg)
    /\ FramesDropped
    /\ UNCHANGED <<lakehouse_name, max_wait_minutes, elapsed, trace, error>>

\* lines 177-179: except Exception: print the error, raise
UsageExcept ==
    /\ pc = "raised"
    /\ pc' = "propagated"
    /\ printed' = Append(printed, S_ErrorPrefix \o error.msg)
    /\ FramesDropped
    /\ UNCHANGED <<lakehouse_name, max_wait_minutes, elapsed, trace, error>>

Next ==
    \/ ListLakehouses
    \/ ListSqlEndpoints
    \/ ListItems
    \/ ReturnEndpointId
    \/ Trigger
    \/ Poll
    \/ TimeOut
    \/ UsageContinue
    \/ UsageExcept

Spec == Init /\ [][Next]_vars

FairSpec == Spec /\ WF_vars(Next)

\* ------------------------------------------------ vocabulary of the claims
CountOp(op) == Len(SelectSeq(trace, LAMBDA e : e.op = op))

LastEventIs(op, n) ==
    /\ Len(trace) > 0
    /\ trace[Len(trace)].op = op
    /\ trace[Len(trace)].n = n

Failed == pc \in {"raised", "propagated"}

\* the resolver is running or has raised: its locals hold what it computed
ResolverFrame ==
    \/ pc \in {"list_sqlendpoints", "list_items", "return_id"}
    \/ pc = "raised" /\ CountOp("POST refreshMetadata") = 0

StorageListed == ResolverFrame /\ trace[1].op = "GET lakehouses" /\ trace[1].n = 200

DirectPath == ResolverFrame /\ LastEventIs("GET sqlEndpoints", 200)

ItemsPath == ResolverFrame /\ LastEventIs("GET items", 200)

DirectListingFailed ==
    \E i \in 1..Len(trace) : trace[i].op = "GET sqlEndpoints" /\ trace[i].n # 200

MinOf(S) == CHOOSE i \in S : \A j \in S : i <= j

\* C1: when the storage listing answers 200 and no entry's displayName is
\* exactly (case-sensitively) lakehouse_name, the run fails NotFound and the
\* message contains the displayName of every listed storage resource.
C1_NotFoundListsNames ==
    (/\ StorageListed
     /\ \A i \in 1..Len(lakehouses) : lakehouses[i].displayName # lakehouse_name)
    => /\ Failed
       /\ error.kind = "NotFound"
       /\ \A i \in 1..Len(lakehouses) : Contains(lakehouses[i].displayName, error.msg)

\* a listing of two entries, one differing from the name only in letter case
C1_Witness ==
    /\ pc = "raised"
    /\ error.kind = "NotFound"
    /\ Len(lakehouses) = 2
    /\ \E i \in 1..2 : /\ lakehouses[i].displayName # lakehouse_name
                       /\ Lower(lakehouses[i].displayName) = Lower(lakehouse_name)

\* C2: once the storage resource is found and the direct endpoint listing
\* answered non-200, the items listing is requested exactly once: right after
\* the direct listing, and never again.
C2_FallbackExactlyOnce ==
    /\ CountOp("GET items") <= 1
    /\ (DirectListingFailed /\ pc # "list_items") =>
          /\ CountOp("GET items") = 1
          /\ \E i \in 1..(Len(trace) - 1) :
                /\ trace[i].op = "GET sqlEndpoints"
                /\ trace[i + 1].op = "GET items"

C2_Witness ==
    /\ pc = "done"
    /\ DirectListingFailed
    /\ CountOp("GET items") = 1
    /\ CountOp("GET status") >= 1

RECURSIVE DirectListingOf(_)
\* what the direct endpoint listing answers for the resources that an items
\* listing describes: {id, displayName} of the endpoint resources, in order
DirectListingOf(its) ==
    IF Len(its) = 0 THEN <<>>
    ELSE (IF Head(its).type = EndpointType
          THEN <<[id |-> Head(its).id, displayName |-> Head(its).displayName]>>
          ELSE <<>>) \o DirectListingOf(Tail(its))

IdAndName(eps) ==
    [i \in 1..Len(eps) |-> [id |-> eps[i].id, displayName |-> eps[i].displayName]]

\* C3: on the items path the candidates handed to the name match are, as
\* {id, displayName} entries in order, what the direct listing answers when it
\* describes the same resources as the items listing.
C3_SameCandidates ==
    ItemsPath => IdAndName(sql_endpoints) = DirectListingOf(items)

\* an items listing that mixes a storage resource and an endpoint
C3_Witness ==
    /\ ItemsPath
    /\ Len(items) = 2
    /\ Len(sql_endpoints) = 1
    /\ items[1].type = LakehouseType
    /\ sql_endpoints[1].id = items[2].id

\* the matching conditions of section 4.1a, on the i-th candidate
NameContained(i) ==
    Contains(Lower(lakehouse_name), Lower(sql_endpoints[i].displayName))

HasMarkerToken(i) ==
    LET lowered == Lower(sql_endpoints[i].displayName)
    IN  Contains(Tok_sql, lowered) \/ Contains(Tok_analytics, lowered)

NameEqual(i) == Lower(sql_endpoints[i].displayName) = Lower(lakehouse_name)

Candidates == 1..Len(sql_endpoints)

MarkerMatches == { i \in Candidates : NameContained(i) /\ HasMarkerToken(i) }

EqualMatches == { i \in Candidates : NameEqual(i) }

SubstringMatches == { i \in Candidates : NameContained(i) }

Resolved == pc = "return_id"

NoMatchRaised ==
    /\ Failed
    /\ error.kind = "NoMatchingEndpoint"
    /\ sql_endpoint_id = Unbound
    /\ CountOp("POST refreshMetadata") = 0

\* the priority order of section 4.1a on the candidates of the listing: the
\* first marker match is returned, an equal-only candidate only without one
MarkerBeforeEqual ==
    LET marker == MarkerMatches
        equal == EqualMatches
    IN  /\ marker # {} =>
              /\ Resolved
              /\ sql_endpoint_id = sql_endpoints[MinOf(marker)].id
        /\ (marker = {} /\ equal # {}) =>
              /\ Resolved
              /\ sql_endpoint_id = sql_endpoints[MinOf(equal)].id

\* C4 as stated: on whichever listing path, a candidate that contains the
\* name and a marker token wins over one that merely equals the name,
\* whatever their positions in the listing.
C4_MarkerMatchFirstAnyPath ==
    (DirectPath \/ ItemsPath) => MarkerBeforeEqual

\* C4 amended: on the items path a candidate that contains the name and a
\* marker token wins over one that merely equals the name, whatever their
\* positions: the first marker match in listing order is returned, and an
\* equal-only candidate only when there is no marker match. On the direct
\* path the first candidate that contains the name wins, so the marker match
\* wins there only when no other such candidate is listed before it, as in
\* ["foo - SQL analytics endpoint", "foo"].
C4_MarkerMatchFirst ==
    /\ ItemsPath => MarkerBeforeEqual
    /\ DirectPath =>
          LET marker == MarkerMatches
              substring == SubstringMatches
          IN  marker # {} =>
                 /\ Resolved
                 /\ sql_endpoint_id = sql_endpoints[MinOf(substring)].id
                 /\ (MinOf(substring) = MinOf(marker)) <=>
                       (sql_endpoint_id = sql_endpoints[MinOf(marker)].id)
    /\ ((DirectPath \/ ItemsPath)
          /\ lakehouse_name = N_foo
          /\ DisplayNames(sql_endpoints) = <<N_fooSqlEp, N_foo>>) =>
             (Resolved /\ sql_endpoint_id = sql_endpoints[1].id)

\* the equal name is listed before the marker-token name, which still wins
C4_Witness ==
    /\ ItemsPath
    /\ Resolved
    /\ lakehouse_name = N_foo
    /\ DisplayNames(sql_endpoints) = <<N_foo, N_fooSqlEp>>
    /\ sql_endpoint_id = sql_endpoints[2].id

\* C5: on the direct path the first candidate in listing order whose
\* lower-cased name contains the lower-cased lakehouse_name is returned, with
\* or without a marker token, and no other candidate is ever returned.
C5_DirectSubstringMatch ==
    DirectPath =>
       LET substring == SubstringMatches
       IN  /\ substring # {} =>
                 /\ Resolved
                 /\ sql_endpoint_id = sql_endpoints[MinOf(substring)].id
           /\ Resolved => substring # {}

\* a name that contains the resource name, without marker and not equal to it
C5_Witness ==
    /\ DirectPath
    /\ Resolved
    /\ DisplayNames(sql_endpoints) = <<N_barSql, N_foobar>>
    /\ sql_endpoint_id = sql_endpoints[2].id

NoRuleMatches ==
    \/ DirectPath /\ SubstringMatches = {}
    \/ ItemsPath /\ MarkerMatches = {} /\ EqualMatches = {}

\* C6: when the storage resource is found and no candidate satisfies a rule
\* of the path taken, the run fails NoMatchingEndpoint without an id, the
\* message contains the display name of every candidate considered, and no
\* refresh trigger is issued.
C6_NoMatchingEndpoint ==
    /\ NoRuleMatches =>
          /\ NoMatchRaised
          /\ \A i \in Candidates : Contains(sql_endpoints[i].displayName, error.msg)
    /\ error.kind = "NoMatchingEndpoint" => NoMatchRaised

\* a candidate contained the name, without a marker and without being equal
C6_Witness ==
    /\ ItemsPath
    /\ NoMatchRaised
    /\ DisplayNames(sql_endpoints) = <<N_foobar, N_barSql>>
    /\ Len(items) = 2

PlausibleMatches ==
    IF DirectPath THEN SubstringMatches ELSE MarkerMatches \cup EqualMatches

\* the candidate that the rules of the path taken put first
FirstByPriority ==
    IF DirectPath THEN MinOf(SubstringMatches)
    ELSE LET marker == MarkerMatches
         IN  IF marker # {} THEN MinOf(marker) ELSE MinOf(EqualMatches)

\* C7 as stated: resolution fails unless exactly one candidate plausibly
\* matches (zero or several matches both fail).
C7_FailsUnlessUnique ==
    (DirectPath \/ ItemsPath) =>
       (Cardinality(PlausibleMatches) # 1 => NoMatchRaised)

\* C7 amended: resolution fails exactly when no candidate matches; when one
\* or several match, exactly one id is selected, that of the first match in
\* listing order under the highest-priority rule that matches.
C7_OneIdFirstMatchWins ==
    (DirectPath \/ ItemsPath) =>
       LET plausible == PlausibleMatches
       IN  /\ plausible = {} <=> NoMatchRaised
           /\ plausible # {} =>
             /\ Resolved
             /\ Cardinality({ i \in Candidates :
                                sql_endpoints[i].id = sql_endpoint_id }) = 1
             /\ sql_endpoint_id = sql_endpoints[FirstByPriority].id

\* two candidates tie under the relaxed rule and the first is selected
C7_Witness ==
    /\ DirectPath
    /\ Resolved
    /\ Cardinality(PlausibleMatches) = 2
    /\ sql_endpoint_id = sql_endpoints[1].id

\* position in the trace of the trigger request, 0 before it is issued
TriggerIndex ==
    FirstIndex(Len(trace), LAMBDA i : trace[i].op = "POST refreshMetadata")

TriggerAnswered(n) == TriggerIndex # 0 /\ trace[TriggerIndex].n = n

Succeeded == pc \in {"returned", "done"} /\ error = NoError

\* C8: when the trigger answers 200 the run returns success; the status
\* location is never queried and no sleep is performed.
C8_Trigger200NoPolling ==
    TriggerAnswered(200) =>
       /\ Succeeded
       /\ CountOp("GET status") = 0
       /\ CountOp("sleep") = 0
       /\ trace[Len(trace)].op = "POST refreshMetadata"

\* the 200 came with a Location header, which is not followed
C8_Witness ==
    /\ pc = "done"
    /\ TriggerAnswered(200)
    /\ max_wait_minutes > 0
    /\ trace[TriggerIndex].location \notin {None, ""}

\* C9: when the trigger answers 202 without a location header, or with an
\* empty one, the run returns success at once, for every max_wait_minutes:
\* no poll request and no sleep.
C9_NoLocationSucceeds ==
    (TriggerAnswered(202) /\ trace[TriggerIndex].location \in {None, ""}) =>
       /\ Succeeded
       /\ CountOp("GET status") = 0
       /\ CountOp("sleep") = 0
       /\ trace[Len(trace)].op = "POST refreshMetadata"

\* an empty location header, with a deadline that would allow polling
C9_Witness ==
    /\ pc = "done"
    /\ TriggerAnswered(202)
    /\ trace[TriggerIndex].location = ""
    /\ max_wait_minutes = MaxWaitMinutes

\* number of 202 answers of the status location
Pending202 ==
    Len(SelectSeq(trace, LAMBDA e : e.op = "GET status" /\ e.n = 202))

\* C10: when the status location answers 200 after k answers of 202, the run
\* returns success after exactly k + 1 polls and k sleeps of 30 seconds: the
\* trace after the trigger is k times (poll 202, sleep 30) and then poll 200.
C10_OneSleepPerPending ==
    (\E i \in 1..Len(trace) : trace[i].op = "GET status" /\ trace[i].n = 200) =>
       LET t == TriggerIndex
           k == Pending202
       IN  /\ Succeeded
           /\ TriggerAnswered(202)
           /\ Len(trace) = t + 2 * k + 1
           /\ CountOp("GET status") = k + 1
           /\ CountOp("sleep") = k
           /\ \A j \in 1..k :
                 /\ trace[t + 2 * j - 1].op = "GET status"
                 /\ trace[t + 2 * j - 1].n = 202
                 /\ trace[t + 2 * j - 1].arg = trace[t].location
                 /\ trace[t + 2 * j].op = "sleep"
                 /\ trace[t + 2 * j].n = 30
           /\ trace[Len(trace)].op = "GET status"
           /\ trace[Len(trace)].n = 200
           /\ trace[Len(trace)].arg = trace[t].location
           /\ elapsed >= 30 * k

\* the case of the specification: one 202, then 200: exactly one sleep
C10_Witness ==
    /\ pc = "done"
    /\ Pending202 = 1
    /\ CountOp("sleep") = 1
    /\ CountOp("GET status") = 2
    /\ trace[Len(trace)].n = 200

\* the trigger answered 202 with a status location: the poll loop was entered
PollingStarted ==
    /\ TriggerAnswered(202)
    /\ trace[TriggerIndex].location \notin {None, ""}

\* every answer of the status location so far was 202
AllPending ==
    \A i \in 1..Len(trace) : trace[i].op = "GET status" => trace[i].n = 202

Terminated == pc \in {"done", "propagated"}

\* what holds once the poll loop is left after nothing but 202 answers
TimedOutAfterPending ==
    (PollingStarted /\ AllPending /\ pc # "poll_loop") =>
       /\ Failed
       /\ error.kind = "RefreshTimedOut"
       /\ elapsed >= max_wait_minutes * 60
       /\ CountOp("sleep") = CountOp("GET status")
       /\ (max_wait_minutes = 1 /\ elapsed = 30 * CountOp("sleep")) =>
             /\ CountOp("GET status") = 2
             /\ elapsed = 60

\* C11: after a 202 trigger with a status location the poll loop is always
\* left and the run terminates; when every poll answered 202 the outcome is
\* RefreshTimedOut, never success, each 202 having been followed by a sleep,
\* and with max_wait_minutes = 1 and no request latency the run performs
\* exactly two polls and fails at elapsed 60.
C11_AllPendingTimesOut ==
    /\ []TimedOutAfterPending
    /\ (pc = "poll_loop") ~> Terminated

\* one minute, two polls answered 202, no latency, timed out at 60 seconds
C11_Witness ==
    /\ pc = "propagated"
    /\ error.kind = "RefreshTimedOut"
    /\ max_wait_minutes = 1
    /\ CountOp("GET status") = 2
    /\ elapsed = 60

\* the three decimal digits of a status code, as the message spells it
Decimal3(n) ==
    <<DigitChars[(n \div 100) + 1], DigitChars[((n \div 10) % 10) + 1],
      DigitChars[(n % 10) + 1]>>

\* the message names the status code and ends with the body of the answer
CarriesAnswer(e) ==
    /\ Contains(Decimal3(e.n) \o S_Dash \o e.text, error.msg)
    /\ SubSeq(error.msg, Len(error.msg) - Len(e.text) + 1, Len(error.msg)) = e.text

NeverContinued ==
    /\ ~Succeeded
    /\ \A i \in 1..Len(printed) : printed[i] # S_PipelineContinue

\* C12: a trigger answer other than 200 or 202 ends the run in TriggerFailed
\* and a poll answer other than 200 or 202 ends it in PollFailed; the error
\* carries the status code and the body of that answer, the answer is the
\* last event of the run, and the run never reports success.
C12_UnexpectedStatusFails ==
    \A i \in 1..Len(trace) :
       (trace[i].op \in {"POST refreshMetadata", "GET status"}
          /\ trace[i].n \notin {200, 202}) =>
             /\ i = Len(trace)
             /\ Failed
             /\ error.kind = IF trace[i].op = "GET status" THEN "PollFailed"
                              ELSE "TriggerFailed"
             /\ CarriesAnswer(trace[i])
             /\ NeverContinued

\* a poll fails with 500 and body "gone" after one pending answer
C12_Witness ==
    /\ pc = "propagated"
    /\ error.kind = "PollFailed"
    /\ CountOp("GET status") = 2
    /\ trace[Len(trace)].n = 500
    /\ trace[Len(trace)].text = B_gone

\* the answer of event e puts the refresh operation in a terminal state
TerminalAnswer(e) ==
    \/ e.op = "POST refreshMetadata" /\ (e.n # 202 \/ e.location \in {None, ""})
    \/ e.op = "GET status" /\ e.n # 202

NoRetry ==
    /\ CountOp("POST refreshMetadata") <= 1
    /\ \A i \in 1..Len(trace) : TerminalAnswer(trace[i]) => i = Len(trace)

RunEnded == pc \in {"returned", "raised", "done", "propagated"}

\* C13: the trigger is issued at most once, an answer that makes the refresh
\* operation Succeeded or Failed is the last request of the run, and once
\* the operation is Succeeded, Failed or TimedOut no trigger, poll or sleep
\* follows.
C13_NoRetryTerminalAbsorbing ==
    /\ []NoRetry
    /\ [][RunEnded => (trace' = trace /\ RunEnded')]_vars

\* the first poll answered an unexpected status and the error has propagated
C13_Witness ==
    /\ pc = "propagated"
    /\ error.kind = "PollFailed"
    /\ CountOp("POST refreshMetadata") = 1
    /\ CountOp("GET status") = 1
    /\ CountOp("sleep") = 0

ErrorKinds ==
    {"ListFailed", "NotFound", "NoMatchingEndpoint", "TriggerFailed", "PollFailed",
     "RefreshTimedOut"}

ContinueSignalled == \E i \in 1..Len(printed) : printed[i] = S_PipelineContinue

\* the last answer of the run is one for which the call returns True
EndedWithSuccessAnswer ==
    /\ Len(trace) > 0
    /\ LET e == trace[Len(trace)]
       IN  \/ e.op = "POST refreshMetadata" /\ e.n = 200
           \/ e.op = "POST refreshMetadata" /\ e.n = 202 /\ e.location \in {None, ""}
           \/ e.op = "GET status" /\ e.n = 200

ErrorsSurface ==
    /\ error.kind \in ErrorKinds <=> Failed
    /\ error.kind \in ErrorKinds \/ error = NoError
    /\ pc = "raised" => printed = <<>>
    /\ pc = "propagated" => printed = <<S_ErrorPrefix \o error.msg>>
    /\ ContinueSignalled <=> pc = "done"
    /\ pc = "done" => (error = NoError /\ EndedWithSuccessAnswer
                        /\ printed = <<S_PipelineContinue>>)

\* C14: every raised error, of whatever kind, is printed as a diagnostic and
\* propagates out of the run unchanged; the run never ends normally after an
\* error, and the "pipeline can continue" signal is emitted if and only if
\* the call returned success.
C14_ErrorsPropagate ==
    /\ []ErrorsSurface
    /\ [][pc = "raised" => (pc' = "propagated" /\ error' = error)]_vars

\* a timeout has been printed and has propagated; no continue signal
C14_Witness ==
    /\ pc = "propagated"
    /\ error.kind = "RefreshTimedOut"
    /\ Len(printed) = 1
    /\ Contains(S_TimedOutAfter, printed[1])
    /\ ~ContinueSignalled

\* the items whose display name matches a rule of the items path
MatchingItems ==
    { i \in 1..Len(items) :
        LET lowered == Lower(items[i].displayName)
        IN  \/ lowered = Lower(lakehouse_name)
            \/ /\ Contains(Lower(lakehouse_name), lowered)
               /\ Contains(Tok_sql, lowered) \/ Contains(Tok_analytics, lowered) }

\* C15: on the items path the candidates are the items of endpoint type only;
\* the id returned is the id of an item of endpoint type, and when no item of
\* endpoint type matches the run fails NoMatchingEndpoint even if an item of
\* another type matches by name.
C15_OnlyEndpointItems ==
    ItemsPath =>
       LET matching == MatchingItems
       IN  /\ \A i \in Candidates : sql_endpoints[i].type = EndpointType
           /\ Len(sql_endpoints) =
                 Cardinality({ i \in 1..Len(items) : items[i].type = EndpointType })
           /\ Resolved =>
                 \E i \in matching :
                    items[i].id = sql_endpoint_id /\ items[i].type = EndpointType
           /\ (\A i \in matching : items[i].type # EndpointType) => NoMatchRaised

\* the only item that matches is the storage resource itself, named exactly
\* as asked; an endpoint that does not match is listed too
C15_Witness ==
    /\ ItemsPath
    /\ NoMatchRaised
    /\ Len(items) = 2
    /\ Len(sql_endpoints) = 1
    /\ \E i \in 1..2 : /\ items[i].type = LakehouseType
                       /\ items[i].displayName = lakehouse_name

\* every candidate contains the name, has no marker token and is not equal
OnlyBareSubstrings ==
    /\ Candidates # {}
    /\ \A i \in Candidates : NameContained(i) /\ ~HasMarkerToken(i) /\ ~NameEqual(i)

\* C16: the two paths are not outcome-equivalent on the same candidates: a
\* name that contains the resource name without a marker token and without
\* being equal to it is returned by the direct path and yields no match on
\* the items path, and whenever the items path returns an endpoint the
\* direct path returns one too.
C16_DirectMorePermissive ==
    /\ (DirectPath /\ OnlyBareSubstrings) =>
          /\ Resolved
          /\ FallbackMatch(sql_endpoints, lakehouse_name) = 0
    /\ (ItemsPath /\ OnlyBareSubstrings) =>
          /\ NoMatchRaised
          /\ DirectMatch(IdAndName(sql_endpoints), lakehouse_name) # 0
    /\ (ItemsPath /\ Resolved) =>
          DirectMatch(IdAndName(sql_endpoints), lakehouse_name) # 0
    /\ (DirectPath /\ NoMatchRaised) =>
          FallbackMatch(sql_endpoints, lakehouse_name) = 0

\* the direct path returned an endpoint for which the items path finds none
C16_Witness ==
    /\ DirectPath
    /\ Resolved
    /\ DisplayNames(sql_endpoints) = <<N_barSql, N_foobar>>
    /\ sql_endpoint_id = sql_endpoints[2].id
    /\ FallbackMatch(sql_endpoints, lakehouse_name) = 0

\* the place of a request or sleep in the order of one run
Stage(e) ==
    CASE e.op = "GET lakehouses" -> 1
      [] e.op = "GET sqlEndpoints" -> 2
      [] e.op = "GET items" -> 3
      [] e.op = "POST refreshMetadata" -> 4
      [] OTHER -> 5

RunInOrder ==
    /\ Len(trace) > 0 => Stage(trace[1]) = 1
    /\ \A i \in 1..(Len(trace) - 1) :
          LET a == Stage(trace[i])
              b == Stage(trace[i + 1])
          IN  /\ a <= b
              /\ a < 5 => a < b
              /\ b = 2 => (a = 1 /\ trace[i].n = 200)
              /\ b = 3 => (a = 2 /\ trace[i].n # 200)
              /\ b = 4 => (a \in {2, 3} /\ trace[i].n = 200)
              /\ b = 5 => a \in {4, 5}
    \* a storage lookup that failed is the only request of its run
    /\ (Failed /\ error.kind \in {"ListFailed", "NotFound"}
          /\ CountOp("GET sqlEndpoints") = 0) => Len(trace) = 1
    \* the trigger targets the id that the caller holds
    /\ (TriggerIndex # 0 /\ pc \in {"poll_loop", "returned", "raised"}) =>
          trace[TriggerIndex].arg = sql_endpoint_id

\* the id selected among the candidates of the listing
ResolvedId == sql_endpoint_id \in { sql_endpoints[i].id : i \in Candidates }

\* C17: the requests of a run occur in the order storage listing, direct
\* endpoint listing, items listing (only after a non-200 direct listing),
\* trigger, polls; the trigger is issued only after a listing from which an
\* endpoint was resolved, on exactly the id that resolution returned; a run
\* whose storage lookup failed issues no endpoint listing.
C17_SequentialOrder ==
    /\ [](RunInOrder /\ (Resolved => ResolvedId))
    /\ [][Resolved => (pc' = "trigger" /\ sql_endpoint_id' = sql_endpoint_id
                        /\ trace' = trace)]_vars
    /\ [][pc = "trigger" => (/\ Len(trace') = Len(trace) + 1
                             /\ trace'[Len(trace')].op = "POST refreshMetadata"
                             /\ trace'[Len(trace')].arg = sql_endpoint_id)]_vars

\* a run that used all five kinds of request, in order, and ended normally
C17_Witness ==
    /\ pc = "done"
    /\ Len(trace) = 7
    /\ Stage(trace[1]) = 1
    /\ Stage(trace[2]) = 2
    /\ Stage(trace[3]) = 3
    /\ Stage(trace[4]) = 4
    /\ trace[4].arg = "it-2"
    /\ trace[7].op = "GET status"

\* C18: the items listing is requested only after a non-200 answer of the
\* direct listing: when the direct listing answers 200 and no listed endpoint
\* matches, an empty list included, the run fails NoMatchingEndpoint and the
\* items listing is never requested.
C18_NoFallbackOnEmptyResult ==
    /\ \A i \in 1..Len(trace) :
          (trace[i].op = "GET sqlEndpoints" /\ trace[i].n = 200) =>
             CountOp("GET items") = 0
    /\ \A i \in 1..Len(trace) :
          trace[i].op = "GET items" =>
             (i > 1 /\ trace[i - 1].op = "GET sqlEndpoints" /\ trace[i - 1].n # 200)
    /\ (DirectPath /\ SubstringMatches = {}) =>
          (NoMatchRaised /\ LastEventIs("GET sqlEndpoints", 200))
    /\ (pc = "propagated" /\ error.kind = "NoMatchingEndpoint") =>
          (LastEventIs("GET sqlEndpoints", 200) \/ LastEventIs("GET items", 200))

\* the direct listing answered 200 with an empty list; the error propagated
\* after two requests
C18_Witness ==
    /\ pc = "propagated"
    /\ error.kind = "NoMatchingEndpoint"
    /\ LastEventIs("GET sqlEndpoints", 200)
    /\ Len(trace) = 2
    /\ Contains(<<"[", "]">>, error.msg)

DeadlineReached == elapsed >= max_wait_minutes * 60

\* the step issues a poll request
PollIssued ==
    \E i \in (Len(trace) + 1)..Len(trace') : trace'[i].op = "GET status"

\* C19: the deadline is looked at only before each poll: a poll is issued
\* only when elapsed < max_wait_minutes * 60; once a sleep has carried the
\* elapsed time to the deadline the run fails RefreshTimedOut without asking
\* again, whatever the next answer would have been, and with
\* max_wait_minutes = 0 it does so with zero polls.
C19_DeadlineBeforeEachPoll ==
    /\ [][PollIssued => ~DeadlineReached]_vars
    /\ [][(pc = "poll_loop" /\ DeadlineReached) =>
             (/\ pc' = "raised"
              /\ error'.kind = "RefreshTimedOut"
              /\ trace' = trace)]_vars
    /\ []((PollingStarted /\ max_wait_minutes = 0 /\ pc # "poll_loop") =>
             (/\ Failed
              /\ error.kind = "RefreshTimedOut"
              /\ CountOp("GET status") = 0))
    /\ []((Failed /\ error.kind = "RefreshTimedOut") =>
             (DeadlineReached /\ AllPending
              /\ trace[Len(trace)].op \in {"sleep", "POST refreshMetadata"}))

\* no patience at all: timed out right after the trigger, without a poll
C19_Witness ==
    /\ pc = "propagated"
    /\ error.kind = "RefreshTimedOut"
    /\ max_wait_minutes = 0
    /\ PollingStarted
    /\ CountOp("GET status") = 0
    /\ CountOp("sleep") = 0

\* C20: a non-200 answer of the storage listing or of the items listing ends
\* the run at once with an error that carries the status code and the body,
\* of a kind that is neither NotFound nor NoMatchingEndpoint; no candidate is
\* matched and no trigger is issued. A non-200 answer of the direct listing
\* does not end the run: the items listing follows.
C20_OnlyDirectListingTolerant ==
    \A i \in 1..Len(trace) :
       /\ (trace[i].op \in {"GET lakehouses", "GET items"} /\ trace[i].n # 200) =>
             /\ i = Len(trace)
             /\ Failed
             /\ error.kind = "ListFailed"
             /\ CarriesAnswer(trace[i])
             /\ sql_endpoints = <<>>
             /\ sql_endpoint_id = Unbound
             /\ CountOp("POST refreshMetadata") = 0
       /\ (trace[i].op = "GET sqlEndpoints" /\ trace[i].n # 200) =>
             IF i = Len(trace)
             THEN pc = "list_items" /\ error = NoError
             ELSE trace[i + 1].op = "GET items"

\* the direct listing answered 500, which was tolerated, and the items
\* listing answered 202 with body "gone", which was not
C20_Witness ==
    /\ pc = "propagated"
    /\ error.kind = "ListFailed"
    /\ Len(trace) = 3
    /\ trace[2].n = 500
    /\ trace[3].n = 202
    /\ trace[3].text = B_gone
====
